---------------------------- MODULE Spec2Model ----------------------------
(***************************************************************************)
(* Model of the live voice session controller, components/PracticeSession  *)
(* (two variants of the component are in the source file: the grooming     *)
(* variant, lines 1-471, and the roleplay-only variant, lines 474-780).    *)
(*                                                                         *)
(* One action models one event-loop task: a click handler, a promise       *)
(* continuation or a channel callback, run to completion.  React state is  *)
(* modelled by the value it has once the handler's batch of updates is     *)
(* applied (the last setState of a handler wins); refs are mutated at once.*)
(***************************************************************************)
EXTENDS Integers, Sequences, FiniteSets, TLC

\* ------------------------------------------------------------------ bounds
MaxStarts == 2      \* start requests accepted in one run
MaxAudits == 1      \* scoring calls issued in one run
LifeSources == 2    \* Spec: playback sources created in one run
PlaySources == 3    \* SpecPlay: playback sources created in one run
PlayDur == 2        \* SpecPlay: longest playback buffer, in clock ticks
PlayTime == 3       \* SpecPlay: last tick of the wall clock
TextSources == 1    \* SpecText: playback sources created in one run
TextChunks == 2     \* SpecText: transcript chunks one accumulator may hold
TextTurns == 2      \* SpecText: entries of the turn history
PlayTurns == 1      \* SpecTurn: entries of the turn history
MaxFrames == 3      \* SpecSend: microphone frames captured in one run
MaxRuns == 2        \* SpecVideo: handleGenerateVideo runs started in one run
MaxPolls == 2       \* SpecVideo: polls of one video operation
LiveSet == 3        \* SpecLive: playback sources created in one run
LiveTime == 2       \* SpecLive: last tick of the wall clock
SampleDen == 3      \* SpecSend: captured samples are multiples of 1/SampleDen
MaxUsers == 2       \* SpecApp: accounts that sign in
MaxFetches == 2     \* SpecApp: history fetches issued in one run
MaxRunsApp == 2     \* SpecApp: remote analysis calls issued in one run
MaxStamp == 2       \* SpecStore: distinct clock readings
MaxOps == 2         \* SpecStore: store operations called in one run

Attempts == 1..MaxStarts
NoRef == 0
Runs == 1..MaxRuns
Users == 1..MaxUsers
NoUser == 0

Max(a, b) == IF a >= b THEN a ELSE b

VARIABLES
  variant,        \* "grooming" (lines 1-471) or "roleplay" (lines 474-780)
  sessionMode,    \* useState sessionMode (grooming variant)
  status,         \* useState status
  isActive,       \* useState isActive
  evaluation,     \* useState evaluation: TRUE when non-null
  sessionRef,     \* sessionRef.current: NoRef or the attempt whose session it is
  streamRef,      \* streamRef.current: NoRef or the attempt whose stream it is
  pc,             \* per start request: position of its startPractice run
  chan,           \* per start request: state of the channel it opened
  capMode,        \* per start request: sessionMode captured by its closures
  capStatus,      \* per start request: status captured in its stopPractice
  tracksLive,     \* streams acquired whose tracks have not been stopped
  t0,             \* per start request: wall time at which its contexts were made
  now,            \* wall clock
  srcs,           \* every playback source created so far, in scheduling order
  sourcesRef,     \* sourcesRef.current: indices into srcs
  nextStartTime,  \* nextStartTimeRef.current
  pending,        \* inbound messages suspended at "await decodeAudioData"
  userT,          \* userTranscriptionRef.current
  aiT,            \* aiTranscriptionRef.current
  transcription,  \* useState transcription (turn history)
  outbound,       \* captured microphone frames: how many, those waiting on the
                  \* connect promise, those whose send was issued
  vg,             \* components/VideoGenerator: its state and its runs
  app,            \* App: its state, its ref and its remote calls in flight
  fb,             \* the Firebase store module: db, auth, the permission flag,
                  \* the remote collection and the calls in flight
  audits,         \* scoring calls of runGroomingAudit: "none", "pending", "done"
  lastOp,         \* history: the handler that ran last
  cancelled       \* history: stopPractice ran while status was 'connecting'
                  \* and no start request was made since

vars == <<variant, sessionMode, status, isActive, evaluation, sessionRef,
          streamRef, pc, chan, capMode, capStatus, tracksLive, t0, now, srcs,
          sourcesRef, nextStartTime, pending, userT, aiT,
          transcription, outbound, vg, app, fb, audits, lastOp, cancelled>>

\* Every variable of the session controller.
psVars == <<variant, sessionMode, status, isActive, evaluation, sessionRef,
            streamRef, pc, chan, capMode, capStatus, tracksLive, t0, now, srcs,
            sourcesRef, nextStartTime, pending, userT, aiT,
            transcription, outbound, audits, cancelled>>

lifeVars == <<sessionRef, streamRef, chan, tracksLive>>
playVars == <<srcs, sourcesRef, nextStartTime, pending>>
textVars == <<userT, aiT, transcription>>

Op(name) == name

\* History: the handlers that run stopPractice, and the name recorded when one
\* of them runs right after another.
StopOps == {"stop", "toggle", "onerror", "onclose", "audit"}
OpStop(name) == IF lastOp \in StopOps \cup {"stopAgain"} THEN "stopAgain" ELSE name

\* outputCtx.currentTime of the context made by start request i
ctxTime(i) == now - t0[i]


\* ------------------------------------------------------------- stopPractice
\* A teardown that keeps the status its caller has set: C13 tells it from
\* lines 61 / 537.
stopStatus_byHandler(st, cs) == st
\* Lines 61 / 537.  cs is the status captured by the closure that runs (the
\* grooming variant memoises stopPractice on [status]); st is the status the
\* handler has set before the call.
stopStatus(st, cs) ==
  IF variant = "grooming" /\ cs = "analyzing" THEN st ELSE "idle"

\* Lines 62-65 / 538-541: close the held session; ch is the channel map the
\* handler has produced so far.
stopChan(ch) ==
  IF sessionRef # NoRef /\ ch[sessionRef] \in {"opening", "open"}
    THEN [ch EXCEPT ![sessionRef] = "closing"]
    ELSE ch

\* Lines 66-69 / 542-545: stop every track of the held stream.
stopTracks(live) == live \ {streamRef}

\* A teardown that leaves the cursor where it is: C1 tells it from line 72.
stopCursor_keep(c) == c
\* Lines 72 / 548.
stopCursor(c) == 0

\* Lines 549-550 exist in the roleplay variant only.
stopText(t) == IF variant = "roleplay" THEN <<>> ELSE t

\* Lines 70 / 546, and 627-629: source.stop() on every source of the set.
stopSources(ss, set) ==
  [k \in DOMAIN ss |->
     IF k \in set /\ ss[k].st = "playing" THEN [ss[k] EXCEPT !.st = "stopped"]
                                          ELSE ss[k]]

\* A message suspended at the await when its session is torn down resumes
\* after the teardown.
stopPending(q) == [k \in DOMAIN q |-> [q[k] EXCEPT !.stale = TRUE]]

\* Lines 59-73 / 535-551.
stopPractice(st, cs, ch) ==
  /\ isActive' = FALSE
  /\ status' = stopStatus(st, cs)
  /\ chan' = stopChan(ch)
  /\ sessionRef' = NoRef
  /\ tracksLive' = stopTracks(tracksLive)
  /\ streamRef' = NoRef
  /\ srcs' = stopSources(srcs, sourcesRef)
  /\ sourcesRef' = {}
  /\ nextStartTime' = stopCursor(nextStartTime)
  /\ pending' = stopPending(pending)
  /\ userT' = stopText(userT)
  /\ aiT' = stopText(aiT)
  /\ cancelled' = (cancelled \/ status = "connecting")
  /\ UNCHANGED <<now, t0>>

\* ----------------------------------------------------------- start request
\* The start button: lines 262, 309-311 (grooming) / 692, 720 (roleplay).
startVisible ==
  /\ ~isActive
  /\ status # "connecting"
  /\ variant = "grooming" => (status # "analyzing" /\ ~evaluation)

\* Lines 75-84 / 553-554: startGroomingSession (grooming mode of the grooming
\* variant) clears the transcripts, then startPractice sets 'connecting' and
\* suspends at getUserMedia.
startPractice(i) ==
  /\ startVisible
  /\ pc[i] = "unused"
  /\ \A j \in Attempts : j < i => pc[j] # "unused"
  /\ status' = "connecting"
  /\ pc' = [pc EXCEPT ![i] = "mic"]
  /\ capMode' = [capMode EXCEPT ![i] = sessionMode]
  /\ capStatus' = [capStatus EXCEPT ![i] = status]
  /\ IF variant = "grooming" /\ sessionMode = "grooming"
       THEN userT' = <<>> /\ aiT' = <<>> /\ transcription' = <<>>
            /\ evaluation' = FALSE
       ELSE UNCHANGED <<userT, aiT, transcription, evaluation>>
  /\ lastOp' = Op("start")
  /\ cancelled' = FALSE
  /\ UNCHANGED <<variant, app, fb, vg, outbound, sessionMode, isActive, lifeVars, playVars, t0, now,
                 audits>>

\* Lines 87-105 / 557-571: getUserMedia resolved; the stream is kept, the two
\* audio contexts are made and ai.live.connect is issued.
micGranted(i) ==
  /\ pc[i] = "mic"
  /\ streamRef' = i
  /\ tracksLive' = tracksLive \cup {i}
  /\ t0' = [t0 EXCEPT ![i] = now]
  /\ chan' = [chan EXCEPT ![i] = "opening"]
  /\ pc' = [pc EXCEPT ![i] = "connect"]
  /\ lastOp' = Op("micGranted")
  /\ UNCHANGED <<cancelled, variant, app, fb, vg, outbound, sessionMode, status, isActive, evaluation,
                 sessionRef, capMode, capStatus, now, playVars, textVars,
                 audits>>

\* A catch block that leaves the status alone: C6 tells it from line 167.
startFailed_keep(st) == st
\* Lines 167 / 665-668: the catch block.
startFailed(st) == "error"

\* A catch block that issues the connect again: C19 tells it from line 167.
catchEnds_reconnect == "connect"
\* Lines 167-168 / 665-669: after the catch block startPractice returns; no
\* other code calls getUserMedia or ai.live.connect (lines 87, 105 / 557, 571).
catchEnds == "failed"

\* getUserMedia rejected: control goes to the catch block.
micDenied(i) ==
  /\ pc[i] = "mic"
  /\ status' = startFailed(status)
  /\ pc' = [pc EXCEPT ![i] = catchEnds]
  /\ lastOp' = Op("micDenied")
  /\ UNCHANGED <<cancelled, variant, app, fb, vg, outbound, sessionMode, isActive, evaluation, lifeVars,
                 capMode, capStatus, t0, now, playVars, textVars, audits>>

\* The connect promise rejected before the channel opened, with or without
\* the channel's error callback having run first: the catch block.
connectRejected(i) ==
  /\ pc[i] = "connect"
  /\ chan[i] \in {"opening", "closing"}
  /\ status' = startFailed(status)
  /\ pc' = [pc EXCEPT ![i] = catchEnds]
  /\ chan' = [chan EXCEPT ![i] = IF @ = "opening" THEN "closed" ELSE @]
  /\ lastOp' = Op("connectRejected")
  /\ UNCHANGED <<cancelled, variant, app, fb, vg, outbound, sessionMode, isActive, evaluation, sessionRef,
                 streamRef, tracksLive, capMode, capStatus, t0, now, playVars,
                 textVars, audits>>

\* Lines 108-122 / 574-592: the channel's open callback.
onopen(i) ==
  /\ pc[i] = "connect"
  /\ chan[i] = "opening"
  /\ status' = "active"
  /\ isActive' = TRUE
  /\ chan' = [chan EXCEPT ![i] = "open"]
  /\ pc' = [pc EXCEPT ![i] = "opened"]
  /\ lastOp' = Op("onopen")
  /\ UNCHANGED <<cancelled, variant, app, fb, vg, outbound, sessionMode, evaluation, sessionRef, streamRef,
                 tracksLive, capMode, capStatus, t0, now, playVars, textVars,
                 audits>>

\* Reactions that run in the reverse of the order they were registered in:
\* C18 tells it from the order of the .then calls at lines 118 / 588.
flushOrder_reversed(w) == [k \in 1..Len(w) |-> w[Len(w) + 1 - k]]
\* Lines 118 / 588: the reactions registered on the connect promise by
\* "sessionPromise.then" run in the order they were registered in.
flushOrder(w) == w

\* The sends issued when the connect promise of attempt i resolves: one per
\* frame captured while it was pending.
sendsAtResolve(i, o) ==
  [o EXCEPT !.waiting = SelectSeq(@, LAMBDA f : f.att # i),
            !.sent = @ \o flushOrder(SelectSeq(o.waiting, LAMBDA f : f.att = i))]

\* Lines 166 / 664: the connect promise resolved, "sessionRef.current = await";
\* the reactions registered after the await (lines 118 / 588) run next.
connectResolved(i) ==
  /\ pc[i] = "opened"
  /\ sessionRef' = i
  /\ outbound' = sendsAtResolve(i, outbound)
  /\ pc' = [pc EXCEPT ![i] = "resolved"]
  /\ lastOp' = Op("connectResolved")
  /\ UNCHANGED <<cancelled, variant, app, fb, vg, sessionMode, status, isActive, evaluation,
                 streamRef, chan, tracksLive, capMode, capStatus, t0, now,
                 playVars, textVars, audits>>

\* ---------------------------------------------------------- outbound frames
\* Lines 116 / 582: the factor a float sample is multiplied by.
PCM_SCALE == 32768

\* A captured sample is the fraction n / SampleDen, n in -SampleDen..SampleDen:
\* the values of [-1, 1] on a grid.
Samples == (0 - SampleDen)..SampleDen

\* The integer part of a / b, b > 0: the fraction is dropped, toward zero.
Trunc(a, b) == IF a >= 0 THEN a \div b ELSE 0 - ((0 - a) \div b)

\* A store that clamps to the 16-bit range: C27's statement of the conversion.
ToInt16_saturating(x) ==
  IF x > PCM_SCALE - 1 THEN PCM_SCALE - 1
  ELSE IF x < 0 - PCM_SCALE THEN 0 - PCM_SCALE ELSE x
\* Lines 116 / 582: the store of a number into an Int16Array element keeps
\* its integer part modulo 2^16, read as a signed 16-bit value.
ToInt16(x) ==
  LET m == x % (2 * PCM_SCALE)
  IN  IF m >= PCM_SCALE THEN m - 2 * PCM_SCALE ELSE m

\* Lines 116 / 582: "int16[i] = inputData[i] * 32768" for the sample
\* n / SampleDen.
pcmOf(n) == ToInt16(Trunc(n * PCM_SCALE, SampleDen))

\* Lines 113-119 / 579-589: the capture callback installed by onopen.  It
\* registers one reaction on the connect promise; when the promise is already
\* resolved the reaction (the send) runs before any other task.  Nothing ever
\* disconnects the processor, so it keeps firing after a teardown.  A frame
\* is modelled by one of its samples, n / SampleDen, and that sample's code.
onaudioprocess(i) ==
  /\ pc[i] \in {"opened", "resolved"}
  /\ outbound.captured < MaxFrames
  /\ \E n \in Samples :
       LET f == [att |-> i, id |-> outbound.captured + 1, s |-> n,
                 pcm |-> pcmOf(n)]
       IN  outbound' =
             IF pc[i] = "resolved"
               THEN [outbound EXCEPT !.captured = @ + 1, !.sent = Append(@, f)]
               ELSE [outbound EXCEPT !.captured = @ + 1,
                                     !.waiting = Append(@, f)]
  /\ lastOp' = Op("onaudioprocess")
  /\ UNCHANGED <<cancelled, variant, app, fb, vg, sessionMode, status, isActive, evaluation,
                 lifeVars, pc, capMode, capStatus, t0, now, playVars, textVars,
                 audits>>

\* --------------------------------------------------------- inbound messages
\* A LiveServerMessage: the duration of its inline audio (0: none), whether it
\* carries a user / an agent transcript chunk, the turnComplete flag and the
\* interrupted flag.
Messages(maxDur) ==
  [audio : 0..maxDur, inT : BOOLEAN, outT : BOOLEAN, turn : BOOLEAN,
   intr : BOOLEAN]

USER_CHUNK == "u"
AI_CHUNK == "a"

\* Whether "await decodeAudioData" lets other tasks run before the handler
\* resumes.  The roleplay variant's decodeAudioData (lines 522-533) has no
\* await in it: the handler resumes in the same task.  The grooming variant
\* imports it from services/geminiService.
decodeSuspends == variant = "grooming"

\* A cursor that ignores the playback clock: C2 tells it from line 126.
cursorAtArrival_noClock(c, t) == c
\* Lines 126 / 596.
cursorAtArrival(c, t) == Max(c, t)

\* History kept with each source: the computed end of the buffer scheduled
\* before it in the same session, 0 when there is none or it was force-stopped.
endOfPrevious(i) ==
  LET n == Len(srcs)
  IN  IF n > 0 /\ srcs[n].ctx = i /\ srcs[n].st # "stopped"
        THEN srcs[n].start + srcs[n].dur
        ELSE 0

\* Lines 128-134 / 598-604: the source made for message m of session i and
\* started at the cursor cur.  arr and sched record the playback clock when
\* the message arrived and when source.start ran.
newSource(i, m, arr, cur, stale) ==
  [ctx |-> i, arr |-> arr, sched |-> ctxTime(i), start |-> cur,
   dur |-> m.audio, prevEnd |-> endOfPrevious(i), late |-> stale,
   st |-> "playing"]

\* A cursor that does not advance by the buffer's duration: C14 tells it from
\* line 133.
cursorAfter_noAdvance(cur, d) == cur
\* Lines 133 / 603.
cursorAfter(cur, d) == cur + d

\* Lines 137-140 / 607-610.
userAfter(m, u) == IF m.inT THEN Append(u, USER_CHUNK) ELSE u

\* Lines 141-144 (if) / 611-615 (else if).
aiAfter(m, a) ==
  IF m.outT /\ (variant = "grooming" \/ ~m.inT) THEN Append(a, AI_CHUNK) ELSE a

\* Lines 148 / 621-622: whether turnComplete clears the accumulators.
turnClears(i) == variant = "roleplay" \/ capMode[i] = "roleplay"

\* Lines 146 / 618-620: the pair appended to the history.  The roleplay
\* variant reads the refs into locals first.  The grooming variant reads them
\* inside the updater function, which React runs either at once (eager) or at
\* the next render, after lines 149-150 have run.
turnPair(i, u, a, eager) ==
  IF variant = "grooming" /\ ~eager /\ turnClears(i)
    THEN [user |-> <<>>, ai |-> <<>>]
    ELSE [user |-> u, ai |-> a]

\* Lines 626-632: only the roleplay variant handles the interrupted flag.
handlesInterrupt == variant = "roleplay"

\* The handler from the await on (lines 128-154 / 598-632).
onmessageRest(i, m, arr, cur, stale, eager) ==
  LET audio == m.audio > 0
      k == Len(srcs) + 1
      srcs1 == IF audio THEN Append(srcs, newSource(i, m, arr, cur, stale))
                        ELSE srcs
      set1 == IF audio THEN sourcesRef \cup {k} ELSE sourcesRef
      cur1 == IF audio THEN cursorAfter(cur, m.audio) ELSE nextStartTime
      u1 == userAfter(m, userT)
      a1 == aiAfter(m, aiT)
      intr == m.intr /\ handlesInterrupt
  IN  /\ srcs' = IF intr THEN stopSources(srcs1, set1) ELSE srcs1
      /\ sourcesRef' = IF intr THEN {} ELSE set1
      /\ nextStartTime' = IF intr THEN stopCursor(cur1) ELSE cur1
      /\ userT' = IF m.turn /\ turnClears(i) THEN <<>> ELSE u1
      /\ aiT' = IF m.turn /\ turnClears(i) THEN <<>> ELSE a1
      /\ transcription' =
           IF m.turn THEN Append(transcription, turnPair(i, u1, a1, eager))
                     ELSE transcription
      /\ lastOp' = Op("onmessage")

\* Suspended messages that carry a user chunk, an agent chunk, the turn flag.
PendingIn == Cardinality({k \in DOMAIN pending : pending[k].m.inT})
PendingOut == Cardinality({k \in DOMAIN pending : pending[k].m.outT})
PendingTurn == Cardinality({k \in DOMAIN pending : pending[k].m.turn})

\* The bounds of the run, applied when a message arrives.
WithinBounds(m, lim) ==
  /\ m.audio > 0 => Len(srcs) + Len(pending) < lim.src
  /\ m.inT => Len(userT) + PendingIn < lim.text
  /\ m.outT => Len(aiT) + PendingOut < lim.text
  /\ m.turn => Len(transcription) + PendingTurn < lim.turns

\* Lines 123-154 / 593-633: the channel's message callback, up to the await
\* when the decode suspends and whole otherwise.
onmessage(i, m, lim) ==
  /\ chan[i] = "open"
  /\ WithinBounds(m, lim)
  /\ IF m.audio > 0 /\ decodeSuspends
       THEN /\ nextStartTime' = cursorAtArrival(nextStartTime, ctxTime(i))
            /\ pending' = Append(pending, [att |-> i, m |-> m,
                                           arr |-> ctxTime(i), stale |-> FALSE])
            /\ lastOp' = Op("onmessageAwait")
            /\ UNCHANGED <<srcs, sourcesRef, textVars>>
       ELSE /\ \E eager \in BOOLEAN :
                 onmessageRest(i, m, ctxTime(i),
                               cursorAtArrival(nextStartTime, ctxTime(i)),
                               FALSE, eager)
            /\ UNCHANGED pending
  /\ UNCHANGED <<cancelled, variant, app, fb, vg, outbound, sessionMode, status, isActive, evaluation, lifeVars,
                 pc, capMode, capStatus, t0, now, audits>>

\* Lines 123-127 / 593-597 with an audio payload whose decode throws (decode
\* or decodeAudioData, e.g. a payload of odd byte length at line 523): the
\* async handler has no try/catch, so it ends at the await with the cursor
\* already moved (line 126 / 596); the rest of the message is not handled and
\* the promise the handler returned is rejected with nobody awaiting it.
onmessageThrows(i, m) ==
  /\ chan[i] = "open"
  /\ m.audio > 0
  /\ nextStartTime' = cursorAtArrival(nextStartTime, ctxTime(i))
  /\ lastOp' = Op("onmessageThrew")
  /\ UNCHANGED <<cancelled, variant, app, fb, vg, outbound, sessionMode, status, isActive, evaluation,
                 lifeVars, pc, capMode, capStatus, t0, now, srcs, sourcesRef,
                 pending, textVars, audits>>

\* The decode of a suspended message is done: the handler resumes.
decodeDone(k) ==
  /\ k \in DOMAIN pending
  /\ \E eager \in BOOLEAN :
       onmessageRest(pending[k].att, pending[k].m, pending[k].arr,
                     nextStartTime, pending[k].stale, eager)
  /\ pending' = [j \in 1..(Len(pending) - 1) |->
                   IF j < k THEN pending[j] ELSE pending[j + 1]]
  /\ UNCHANGED <<cancelled, variant, app, fb, vg, outbound, sessionMode, status, isActive, evaluation, lifeVars,
                 pc, capMode, capStatus, t0, now, audits>>

\* The moment a started source stops sounding by itself.
physEnd(r) == Max(r.start, r.sched) + r.dur

\* An end callback that clears the set: C24 tells it from line 131.
endedRemoves_all(set, k) == {}
\* Lines 131 / 601: "sourcesRef.current.delete(source)".
endedRemoves(set, k) == set \ {k}

\* Lines 131 / 601: a source ended naturally; its onended callback runs.
onended(k) ==
  /\ k \in DOMAIN srcs
  /\ srcs[k].st = "playing"
  /\ ctxTime(srcs[k].ctx) >= physEnd(srcs[k])
  /\ srcs' = [srcs EXCEPT ![k].st = "ended"]
  /\ sourcesRef' = endedRemoves(sourcesRef, k)
  /\ lastOp' = Op("onended")
  /\ UNCHANGED <<cancelled, variant, app, fb, vg, outbound, sessionMode, status, isActive, evaluation, lifeVars,
                 pc, capMode, capStatus, t0, now, nextStartTime, pending,
                 textVars, audits>>

\* Lines 131 / 601 after lines 70 / 546 / 628: source.stop() makes the source
\* fire its ended event too; the callback runs in a later task, when the set
\* has been cleared and may hold newer sources.
onendedStopped(k) ==
  /\ k \in DOMAIN srcs
  /\ srcs[k].st = "stopped"
  /\ srcs' = [srcs EXCEPT ![k].st = "stoppedEnded"]
  /\ sourcesRef' = endedRemoves(sourcesRef, k)
  /\ lastOp' = Op("onendedStopped")
  /\ UNCHANGED <<cancelled, variant, app, fb, vg, outbound, sessionMode, status, isActive, evaluation, lifeVars,
                 pc, capMode, capStatus, t0, now, nextStartTime, pending,
                 textVars, audits>>

\* The wall clock, and with it every audio context's currentTime, advances.
tick(maxTime) ==
  /\ now < maxTime
  /\ now' = now + 1
  /\ UNCHANGED <<cancelled, variant, app, fb, vg, outbound, sessionMode, status, isActive, evaluation, lifeVars,
                 pc, capMode, capStatus, t0, playVars, textVars, audits,
                 lastOp>>

\* ------------------------------------------------ error and close callbacks
\* Lines 155 / 634-638: setStatus('error'), then stopPractice().  The socket
\* that reported the error delivers nothing more but its close event.
onerror(i) ==
  /\ chan[i] \in {"opening", "open"}
  /\ stopPractice("error", capStatus[i], [chan EXCEPT ![i] = "closing"])
  /\ lastOp' = OpStop("onerror")
  /\ UNCHANGED <<variant, app, fb, vg, outbound, sessionMode, evaluation, pc, capMode, capStatus,
                 transcription, audits>>

\* Lines 156 / 639: the channel closed, by the remote side or after close().
onclose(i) ==
  /\ chan[i] \in {"opening", "open", "closing"}
  /\ stopPractice(status, capStatus[i], [chan EXCEPT ![i] = "closed"])
  /\ lastOp' = OpStop("onclose")
  /\ UNCHANGED <<variant, app, fb, vg, outbound, sessionMode, evaluation, pc, capMode, capStatus,
                 transcription, audits>>

\* ------------------------------------------------------------ user requests
\* Line 687: the End Session button of the roleplay variant.
endSession ==
  /\ variant = "roleplay"
  /\ isActive
  /\ stopPractice(status, status, chan)
  /\ lastOp' = OpStop("stop")
  /\ UNCHANGED <<variant, app, fb, vg, outbound, sessionMode, evaluation, pc, capMode, capStatus,
                 transcription, audits>>

\* Lines 246-258: the two mode buttons of the grooming variant.
modeToggle(mode) ==
  /\ variant = "grooming"
  /\ stopPractice(status, status, chan)
  /\ sessionMode' = mode
  /\ evaluation' = IF mode = "roleplay" THEN FALSE ELSE evaluation
  /\ lastOp' = OpStop("toggle")
  /\ UNCHANGED <<variant, app, fb, vg, outbound, pc, capMode, capStatus, transcription, audits>>

\* Lines 262, 317, 323, 437: the Finish & Audit button is shown.
auditVisible ==
  /\ variant = "grooming"
  /\ isActive
  /\ status # "analyzing"
  /\ ~evaluation
  /\ sessionMode = "grooming"

\* Lines 170-177: setStatus('analyzing'), stopPractice(), then the scoring
\* call is issued and awaited.
runGroomingAudit ==
  /\ auditVisible
  /\ audits.issued < MaxAudits
  /\ stopPractice("analyzing", status, chan)
  /\ audits' = [issued |-> audits.issued + 1, pending |-> audits.pending + 1]
  /\ lastOp' = OpStop("audit")
  /\ UNCHANGED <<variant, app, fb, vg, outbound, sessionMode, evaluation, pc, capMode, capStatus,
                 transcription>>

\* Lines 208-213: the scoring call returned (ok) or failed.
auditReturned(ok) ==
  /\ audits.pending > 0
  /\ audits' = [audits EXCEPT !.pending = @ - 1]
  /\ status' = IF ok THEN "idle" ELSE "error"
  /\ evaluation' = IF ok THEN TRUE ELSE evaluation
  /\ lastOp' = Op("auditReturned")
  /\ UNCHANGED <<cancelled, variant, app, fb, vg, outbound, sessionMode, isActive, lifeVars, pc, capMode,
                 capStatus, t0, now, playVars, textVars>>

\* Line 326: Start New Evaluation.
dismissEvaluation ==
  /\ variant = "grooming"
  /\ evaluation
  /\ status # "analyzing"
  /\ evaluation' = FALSE
  /\ lastOp' = Op("dismiss")
  /\ UNCHANGED <<cancelled, variant, app, fb, vg, outbound, sessionMode, status, isActive, lifeVars, pc, capMode,
                 capStatus, t0, now, playVars, textVars, audits>>

\* ============================================== components/VideoGenerator
\* An error thrown by a remote call, by what its message contains: '429',
\* 'RESOURCE_EXHAUSTED', 'Requested entity was not found' (lines 117, 120).
Errors == [q429 : BOOLEAN, qRE : BOOLEAN, nf : BOOLEAN]

\* The messages handleGenerateVideo makes itself (lines 118, 122, 151, 155).
QUOTA_MSG == "Quota exhausted. Check AI Studio billing."
RESELECT_MSG == "API configuration reset. Please re-select your key."
FETCH_MSG == "Fetch failed."
NO_URI_MSG == "Generation completed but no URI returned."

\* Line 159: "err.message || 'Synthesis failed.'" for an error that
\* handleGenerateVideo did not make itself: the error's own message, written
\* by the texts it contains; an error with no message gets the default.
rawMessage(e) ==
  LET m == (IF e.q429 THEN "429 " ELSE "")
             \o (IF e.qRE THEN "RESOURCE_EXHAUSTED " ELSE "")
             \o (IF e.nf THEN "Requested entity was not found" ELSE "")
  IN  IF m = "" THEN "Synthesis failed." ELSE m

\* Lines 23-33: the component as mounted.  run[r] is the position of the r-th
\* handleGenerateVideo run, runMode[r] the mode its closure captured, polls[r]
\* the polls it has made; keyOpened counts the calls of openSelectKey.
VgMounted ==
  [mode |-> "delivery-coach", isGenerating |-> FALSE, videoUrl |-> FALSE,
   error |-> "none", statusMessage |-> FALSE, coachingAdvice |-> FALSE,
   lastOperation |-> FALSE, keyOpened |-> 0,
   run |-> [r \in Runs |-> "unused"],
   runMode |-> [r \in Runs |-> "delivery-coach"],
   polls |-> [r \in Runs |-> 0]]

\* Lines 204, 288: the generate button is shown and enabled.
vgButtonEnabled == ~vg.videoUrl /\ ~vg.isGenerating

\* Lines 35-36: a click; the run suspends at hasSelectedApiKey.
vgClick(r) ==
  /\ vgButtonEnabled
  /\ vg.run[r] = "unused"
  /\ \A q \in Runs : q < r => vg.run[q] # "unused"
  /\ vg' = [vg EXCEPT !.run[r] = "keyCheck", !.runMode[r] = vg.mode]
  /\ lastOp' = Op("vgClick")
  /\ UNCHANGED <<psVars, app, fb>>

\* Lines 40-52 / 88-112: the state reset, then the first remote call of the
\* run: the coaching text call in delivery-coach mode, generateVideos otherwise.
vgBegin(v, r) ==
  [v EXCEPT !.isGenerating = TRUE, !.error = "none", !.videoUrl = FALSE,
            !.coachingAdvice = FALSE, !.statusMessage = TRUE,
            !.run[r] = IF v.runMode[r] = "delivery-coach" THEN "text"
                                                          ELSE "video"]

\* Lines 36-37: hasSelectedApiKey answered; without a key openSelectKey is
\* called and awaited.
vgKeyChecked(r, has) ==
  /\ vg.run[r] = "keyCheck"
  /\ vg' = IF has THEN vgBegin(vg, r)
                  ELSE [vg EXCEPT !.run[r] = "keySelect", !.keyOpened = @ + 1]
  /\ lastOp' = Op("vgKeyChecked")
  /\ UNCHANGED <<psVars, app, fb>>

\* Line 37: openSelectKey returned.
vgKeySelected(r) ==
  /\ vg.run[r] = "keySelect"
  /\ vg' = vgBegin(vg, r)
  /\ lastOp' = Op("vgKeySelected")
  /\ UNCHANGED <<psVars, app, fb>>

\* Lines 157-163: catch and finally.
vgFail(v, r, msg) ==
  [v EXCEPT !.error = msg, !.isGenerating = FALSE, !.statusMessage = FALSE,
            !.run[r] = "done"]

\* Lines 112-125: only the generateVideos call is inside the inner try that
\* looks at the message.
vgClassifies(call) == call = "video"

\* Lines 117-124 and 157-159: what a remote call's error e becomes.  A quota
\* error becomes QUOTA_MSG; a not-found error opens the key selection, and
\* RESELECT_MSG follows when that returns; any other error, and every error
\* of a call outside the inner try, is shown with its own message.
vgCallFailed(r, call, e) ==
  /\ vg.run[r] = call
  /\ call \in {"text", "video", "poll", "fetch"}
  /\ vg' = IF vgClassifies(call) /\ (e.q429 \/ e.qRE)
             THEN vgFail(vg, r, QUOTA_MSG)
           ELSE IF vgClassifies(call) /\ e.nf
             THEN [vg EXCEPT !.run[r] = "reselect", !.keyOpened = @ + 1]
           ELSE vgFail(vg, r, rawMessage(e))
  /\ lastOp' = Op("vgCallFailed")
  /\ UNCHANGED <<psVars, app, fb>>

\* Lines 121-122: openSelectKey returned inside the inner catch.
vgReselected(r) ==
  /\ vg.run[r] = "reselect"
  /\ vg' = vgFail(vg, r, RESELECT_MSG)
  /\ lastOp' = Op("vgReselected")
  /\ UNCHANGED <<psVars, app, fb>>

\* Lines 84-85 and 88-112: the coaching text call returned; generateVideos is
\* issued.
vgTextReturned(r) ==
  /\ vg.run[r] = "text"
  /\ vg' = [vg EXCEPT !.coachingAdvice = TRUE, !.statusMessage = TRUE,
                      !.run[r] = "video"]
  /\ lastOp' = Op("vgTextReturned")
  /\ UNCHANGED <<psVars, app, fb>>

\* Lines 145-156: the operation is done: it is kept, and its video is fetched
\* when it has a URI.
vgOperationDone(v, r, uri) ==
  IF uri THEN [v EXCEPT !.lastOperation = TRUE, !.statusMessage = TRUE,
                        !.run[r] = "fetch"]
         ELSE vgFail([v EXCEPT !.lastOperation = TRUE], r, NO_URI_MSG)

\* Lines 136-143: generateVideos or a poll returned an operation, done or not;
\* when it is not done the loop shows its next message and polls again.
vgOperationReturned(r, done, uri) ==
  /\ vg.run[r] \in {"video", "poll"}
  /\ ~done => vg.polls[r] < MaxPolls
  /\ vg' = IF done THEN vgOperationDone(vg, r, uri)
                   ELSE [vg EXCEPT !.statusMessage = TRUE, !.run[r] = "poll",
                                   !.polls[r] = @ + 1]
  /\ lastOp' = Op("vgOperationReturned")
  /\ UNCHANGED <<psVars, app, fb>>

\* Lines 150-153 and 160-162: the download returned.
vgFetched(r, ok) ==
  /\ vg.run[r] = "fetch"
  /\ vg' = IF ok THEN [vg EXCEPT !.videoUrl = TRUE, !.isGenerating = FALSE,
                                 !.statusMessage = FALSE, !.run[r] = "done"]
                 ELSE vgFail(vg, r, FETCH_MSG)
  /\ lastOp' = Op("vgFetched")
  /\ UNCHANGED <<psVars, app, fb>>

\* Lines 208-211: the mode buttons; 'extension' is offered once an operation
\* is kept.
vgSetMode(m) ==
  /\ ~vg.videoUrl
  /\ m = "extension" => vg.lastOperation
  /\ vg.mode # m
  /\ vg' = [vg EXCEPT !.mode = m]
  /\ lastOp' = Op("vgSetMode")
  /\ UNCHANGED <<psVars, app, fb>>

\* Line 194: back from the video to the form.
vgReset ==
  /\ vg.videoUrl
  /\ vg' = [vg EXCEPT !.videoUrl = FALSE, !.coachingAdvice = FALSE]
  /\ lastOp' = Op("vgReset")
  /\ UNCHANGED <<psVars, app, fb>>

\* ====================================================================== App
\* An uploaded file (lines 23, 96, 102): one name; len is its content's
\* length, ver tells contents of one length apart, status is its processing
\* state.  The list holds at most one file, of
\* three contents, two of them of one length.
AppFile == [len : 1..2, ver : 1..2, status : {"processing", "ready"}]
AppFiles ==
  {<<>>} \cup {<<f>> : f \in {g \in AppFile :
                                /\ g.len = 2 => g.ver = 1
                                /\ g.status = "processing" => g.len = 1 /\ g.ver = 1}}

\* Lines 34-55: the meeting contexts the user may configure.
AppContexts == 1..2

\* The library: the store holds one document per account, its id the owner's.
storedDocs(u) == IF u = NoUser THEN {} ELSE {u}

\* Lines 26, 32: null, for the stored analysis (written as the input it was
\* made from), for the last-analysed hash and for the call in flight.
NoInput == [files |-> <<>>, docs |-> {}, ctx |-> 0, by |-> NoUser]
NoHash == [fileIds |-> <<>>, libIds |-> {}, ctx |-> 0]
NoCall == [hash |-> NoHash, input |-> NoInput]

\* Lines 20-32: App as mounted.  fetches are the history fetches in flight,
\* each with the account that issued it; call is the remote analysis in
\* flight; analysed is history: the input of the last analysis stored.
AppMounted ==
  [user |-> NoUser, files |-> <<>>, history |-> {}, selected |-> {},
   analysis |-> NoInput, isAnalyzing |-> FALSE, error |-> "none",
   activeTab |-> "context", context |-> 1, lastAnalyzedHash |-> NoHash,
   fetches |-> {}, call |-> NoCall, analysed |-> NoInput,
   fetched |-> 0, calls |-> 0]

\* Lines 166-167, 237, 250: which of the three views is shown.
appFirstView == app.user # NoUser /\ app.analysis = NoInput /\ ~app.isAnalyzing
appTabsView == app.user # NoUser /\ app.analysis # NoInput /\ ~app.isAnalyzing

\* Lines 57-61 up to the await: loadHistory of account u issues a fetch.
loadHistoryOf(a, u) ==
  IF u = NoUser THEN a
  ELSE [a EXCEPT !.fetches = @ \cup {[by |-> u, n |-> a.fetched + 1]},
                 !.fetched = @ + 1]

\* Lines 67-73: the reset on sign-out.
signedOut(a) ==
  [a EXCEPT !.history = {}, !.files = <<>>, !.analysis = NoInput,
            !.selected = {}]

\* Lines 63-82: the auth subscription's callback, and the effect that loads
\* the history of the account that signed in.
authChanged(u) ==
  /\ (u = NoUser) # (app.user = NoUser)
  /\ u # NoUser => app.fetched < MaxFetches
  /\ app' = IF u = NoUser
              THEN [signedOut(app) EXCEPT !.user = NoUser]
              ELSE loadHistoryOf([app EXCEPT !.user = u], u)
  /\ lastOp' = Op(IF u = NoUser THEN "signOut" ELSE "signIn")
  /\ UNCHANGED <<psVars, vg, fb>>

\* Lines 193, 207: the gallery's refresh and the upload's success callback.
loadHistory ==
  /\ appFirstView
  /\ app.fetched < MaxFetches
  /\ app' = loadHistoryOf(app, app.user)
  /\ lastOp' = Op("loadHistory")
  /\ UNCHANGED <<psVars, vg, fb>>

\* Lines 59-60: the fetch returned, with the documents of the account that
\* issued it or, on any failure, with the empty list (part_000, 107-141).
fetchReturned(f, ok) ==
  /\ f \in app.fetches
  /\ app' = [app EXCEPT !.fetches = @ \ {f},
                        !.history = IF ok THEN storedDocs(f.by) ELSE {}]
  /\ lastOp' = Op("fetchReturned")
  /\ UNCHANGED <<psVars, vg, fb>>

\* Lines 84-88, 195.
toggleLibraryDoc(id) ==
  /\ appFirstView
  /\ id \in app.history
  /\ app' = [app EXCEPT !.selected = IF id \in @ THEN @ \ {id}
                                                 ELSE @ \cup {id}]
  /\ lastOp' = Op("toggleLibraryDoc")
  /\ UNCHANGED <<psVars, vg, fb>>

\* Line 207: the upload component replaces the file list.
setFiles(fs) ==
  /\ appFirstView
  /\ fs # app.files
  /\ app' = [app EXCEPT !.files = fs]
  /\ lastOp' = Op("setFiles")
  /\ UNCHANGED <<psVars, vg, fb>>

\* Lines 201, 271.
setMeetingContext(c) ==
  /\ appFirstView \/ (appTabsView /\ app.activeTab = "context")
  /\ c # app.context
  /\ app' = [app EXCEPT !.context = c]
  /\ lastOp' = Op("setMeetingContext")
  /\ UNCHANGED <<psVars, vg, fb>>

\* Lines 254-260: the tab buttons.
setActiveTab(t) ==
  /\ appTabsView
  /\ t # app.activeTab
  /\ app' = [app EXCEPT !.activeTab = t]
  /\ lastOp' = Op("setActiveTab")
  /\ UNCHANGED <<psVars, vg, fb>>

\* Lines 94-99: generateStateHash: name and content length of every file,
\* the selected ids, the context.
generateStateHash(a) ==
  [fileIds |-> [k \in DOMAIN a.files |-> a.files[k].len],
   libIds |-> a.selected, ctx |-> a.context]

\* Lines 102-103, 118-122: what a remote analysis is given: the contents of
\* the ready files and of the selected documents the history holds, and the
\* context.
analysisInput(a) ==
  [files |-> SelectSeq([k \in DOMAIN a.files |->
                           [len |-> a.files[k].len, ver |-> a.files[k].ver,
                            ready |-> a.files[k].status = "ready"]],
                       LAMBDA f : f.ready),
   docs |-> a.history \cap a.selected, ctx |-> a.context, by |-> a.user]

\* Lines 217-219: the synthesize button is enabled.
synthesizeEnabled ==
  /\ \/ \E k \in DOMAIN app.files : app.files[k].status = "ready"
     \/ app.selected # {}
  /\ \A k \in DOMAIN app.files : app.files[k].status # "processing"

\* A test that counts the selected ids as the button does (line 92), not the
\* selected documents the history holds: C33 tells it from line 105.
nothingReady_bySelection(a) == analysisInput(a).files = <<>> /\ a.selected = {}
\* Line 105.
nothingReady(a) == analysisInput(a).files = <<>> /\ analysisInput(a).docs = {}

\* A test that leaves out "analysis &&": C29 tells it from line 112.
reusesAnalysis_hashOnly(a) == generateStateHash(a) = a.lastAnalyzedHash
\* Line 112.
reusesAnalysis(a) ==
  a.analysis # NoInput /\ generateStateHash(a) = a.lastAnalyzedHash

\* Lines 101-124: runAnalysis up to the remote call, from the synthesize
\* button (line 218) or from the gallery (line 196).
runAnalysis(via) ==
  /\ appFirstView
  /\ via = "button" => synthesizeEnabled
  /\ (~nothingReady(app) /\ ~reusesAnalysis(app)) => app.calls < MaxRunsApp
  /\ app' =
       IF nothingReady(app) THEN [app EXCEPT !.error = "nodocs"]
       ELSE IF reusesAnalysis(app) THEN [app EXCEPT !.activeTab = "strategy"]
       ELSE [app EXCEPT !.isAnalyzing = TRUE, !.error = "none",
                        !.calls = @ + 1,
                        !.call = [hash |-> generateStateHash(app),
                                  input |-> analysisInput(app)]]
  /\ lastOp' = Op(IF nothingReady(app) THEN "runAnalysisEmpty"
                  ELSE IF reusesAnalysis(app) THEN "runAnalysisReused"
                  ELSE "runAnalysis")
  /\ UNCHANGED <<psVars, vg, fb>>

\* A hash taken when the call returns: C34 tells it from lines 110, 129.
hashRecorded_atReturn(a) == generateStateHash(a)
\* Lines 110, 129: the hash recorded is currentHash, computed before the call.
hashRecorded(a) == a.call.hash

\* Lines 126-137: the remote analysis returned (ok) or failed.
analysisReturned(ok) ==
  /\ app.call # NoCall
  /\ app' = IF ok
              THEN [app EXCEPT !.analysis = app.call.input,
                               !.analysed = app.call.input,
                               !.lastAnalyzedHash = hashRecorded(app),
                               !.activeTab = "strategy",
                               !.isAnalyzing = FALSE, !.call = NoCall]
              ELSE [app EXCEPT !.error = "failed", !.isAnalyzing = FALSE,
                               !.call = NoCall]
  /\ lastOp' = Op("analysisReturned")
  /\ UNCHANGED <<psVars, vg, fb>>

\* Lines 140-147, 267.
reset ==
  /\ appTabsView
  /\ app' = [app EXCEPT !.files = <<>>, !.selected = {}, !.analysis = NoInput,
                        !.lastAnalyzedHash = NoHash, !.error = "none",
                        !.activeTab = "context"]
  /\ lastOp' = Op("reset")
  /\ UNCHANGED <<psVars, vg, fb>>

\* ------------------------------------------------- the Firebase store module
\* (src/unnamed/part_000)

\* A field that is not there: a document without timestamp, a null id.
NoStamp == 0
NoId == 0
Stamps == 1..MaxStamp

\* The documents the remote collection may hold when the module is loaded:
\* two of account 1, one of them without timestamp, and one of account 2.
InitialDocs ==
  {[id |-> 1, userId |-> 1, timestamp |-> 1, updated |-> FALSE],
   [id |-> 2, userId |-> 1, timestamp |-> NoStamp, updated |-> FALSE],
   [id |-> 3, userId |-> MaxUsers, timestamp |-> MaxStamp, updated |-> FALSE]}
\* The ids update and delete are called with: those of the documents above.
DocIds == 1..Cardinality(InitialDocs)

\* What an operation returned last: the id of save (NoId is null), the
\* boolean of update and delete, the list of fetch; by is the uid its remote
\* call was made with, remote whether it made one.
NoRet ==
  [op |-> "none", by |-> NoUser, remote |-> FALSE, id |-> NoId, ok |-> FALSE,
   docs |-> <<>>]

\* Lines 26, 37-51: the module as loaded, db and auth initialised.
FbLoaded ==
  [db |-> TRUE, auth |-> TRUE, currentUser |-> NoUser,
   internalPermissionError |-> FALSE, docs |-> {}, nextId |-> 1,
   pending |-> {}, calls |-> 0, remoteCalls |-> 0, ret |-> NoRet]

\* Lines 41-51: initializeApp, getFirestore or getAuth may throw, which leaves
\* db and auth, or auth alone, null; the collection holds what it holds.
FbLoads ==
  {[FbLoaded EXCEPT !.db = i[1], !.auth = i[2], !.docs = c,
                    !.nextId = Cardinality(InitialDocs) + 1] :
     i \in {<<FALSE, FALSE>>, <<TRUE, FALSE>>, <<TRUE, TRUE>>},
     c \in SUBSET InitialDocs}

\* Lines 62-64: Firebase auth signed an account in or out.
fbAuthChanged(u) ==
  /\ fb.auth
  /\ u # fb.currentUser
  /\ fb' = [fb EXCEPT !.currentUser = u]
  /\ lastOp' = Op("fbAuthChanged")
  /\ UNCHANGED <<psVars, vg, app>>

\* Line 59.
clearFirebasePermissionError ==
  /\ fb.internalPermissionError
  /\ fb' = [fb EXCEPT !.internalPermissionError = FALSE]
  /\ lastOp' = Op("clearFirebasePermissionError")
  /\ UNCHANGED <<psVars, vg, app>>

\* A guard that tests db alone: C35 tells it from lines 68, 92, 108, 144.
storeReady_dbOnly(f) == f.db
\* Lines 68, 92, 108, 144: db && auth && auth.currentUser.
storeReady(f) == f.db /\ f.auth /\ f.currentUser # NoUser

\* The neutral value an operation returns: null, false, the empty list.
neutral(op) == [NoRet EXCEPT !.op = op]

\* An operation up to its await: the guard returns the neutral value, or the
\* remote call is issued with the uid of the account signed in.
storeCall(f, op, id, t) ==
  IF ~storeReady(f)
    THEN [f EXCEPT !.calls = @ + 1, !.ret = neutral(op)]
    ELSE [f EXCEPT !.calls = @ + 1, !.remoteCalls = @ + 1,
                   !.pending = @ \cup {[n |-> f.calls + 1, op |-> op,
                                        uid |-> f.currentUser, id |-> id,
                                        timestamp |-> t]}]

\* Lines 67-79: saveDocumentToFirebase up to the await of addDoc; t is
\* Timestamp.now().
saveDocumentToFirebase(t) ==
  /\ fb.calls < MaxOps
  /\ fb' = storeCall(fb, "save", NoId, t)
  /\ lastOp' = Op("saveDocumentToFirebase")
  /\ UNCHANGED <<psVars, vg, app>>

\* Lines 91-99: updateDocumentInFirebase up to the await of updateDoc.
updateDocumentInFirebase(id) ==
  /\ fb.calls < MaxOps
  /\ fb' = storeCall(fb, "update", id, NoStamp)
  /\ lastOp' = Op("updateDocumentInFirebase")
  /\ UNCHANGED <<psVars, vg, app>>

\* Lines 107-117: fetchDocumentsFromFirebase up to the await of getDocs.
fetchDocumentsFromFirebase ==
  /\ fb.calls < MaxOps
  /\ fb' = storeCall(fb, "fetch", NoId, NoStamp)
  /\ lastOp' = Op("fetchDocumentsFromFirebase")
  /\ UNCHANGED <<psVars, vg, app>>

\* Lines 143-146: deleteDocumentFromFirebase up to the await of deleteDoc.
deleteDocumentFromFirebase(id) ==
  /\ fb.calls < MaxOps
  /\ fb' = storeCall(fb, "delete", id, NoStamp)
  /\ lastOp' = Op("deleteDocumentFromFirebase")
  /\ UNCHANGED <<psVars, vg, app>>

\* How a remote call ends: it succeeds, the rules deny it, or it fails
\* otherwise (the network, a document that is not there).
Outcomes == {"ok", "permission-denied", "unavailable"}

\* Lines 83-86, 135-137, 150-152: the flag after a failed save, fetch or
\* delete.
flagAfterFailure(f, out) ==
  IF out = "permission-denied" THEN TRUE ELSE f.internalPermissionError

\* Lines 80-88: addDoc settled.
addDocSettled(p, out) ==
  /\ p \in fb.pending /\ p.op = "save"
  /\ fb' =
       IF out = "ok"
         THEN [fb EXCEPT !.pending = @ \ {p},
                         !.docs = @ \cup {[id |-> fb.nextId, userId |-> p.uid,
                                           timestamp |-> p.timestamp,
                                           updated |-> FALSE]},
                         !.nextId = @ + 1,
                         !.internalPermissionError = FALSE,
                         !.ret = [neutral("save") EXCEPT !.by = p.uid,
                                    !.remote = TRUE, !.id = fb.nextId,
                                    !.ok = TRUE]]
         ELSE [fb EXCEPT !.pending = @ \ {p},
                         !.internalPermissionError = flagAfterFailure(fb, out),
                         !.ret = [neutral("save") EXCEPT !.by = p.uid,
                                                         !.remote = TRUE]]
  /\ lastOp' = Op("addDocSettled")
  /\ UNCHANGED <<psVars, vg, app>>

\* Lines 100-104: updateDoc settled; it succeeds only on a document that is
\* there.  Neither branch writes the flag.
updateDocSettled(p, out) ==
  /\ p \in fb.pending /\ p.op = "update"
  /\ out = "ok" => \E d \in fb.docs : d.id = p.id
  /\ fb' =
       IF out = "ok"
         THEN [fb EXCEPT !.pending = @ \ {p},
                         !.docs = {IF d.id = p.id
                                     THEN [d EXCEPT !.updated = TRUE]
                                     ELSE d : d \in @},
                         !.ret = [neutral("update") EXCEPT !.by = p.uid,
                                    !.remote = TRUE, !.ok = TRUE]]
         ELSE [fb EXCEPT !.pending = @ \ {p},
                         !.ret = [neutral("update") EXCEPT !.by = p.uid,
                                                           !.remote = TRUE]]
  /\ lastOp' = Op("updateDocSettled")
  /\ UNCHANGED <<psVars, vg, app>>

\* Lines 147-154: deleteDoc settled.
deleteDocSettled(p, out) ==
  /\ p \in fb.pending /\ p.op = "delete"
  /\ fb' =
       IF out = "ok"
         THEN [fb EXCEPT !.pending = @ \ {p},
                         !.docs = {d \in @ : d.id # p.id},
                         !.internalPermissionError = FALSE,
                         !.ret = [neutral("delete") EXCEPT !.by = p.uid,
                                    !.remote = TRUE, !.ok = TRUE]]
         ELSE [fb EXCEPT !.pending = @ \ {p},
                         !.internalPermissionError = flagAfterFailure(fb, out),
                         !.ret = [neutral("delete") EXCEPT !.by = p.uid,
                                                           !.remote = TRUE]]
  /\ lastOp' = Op("deleteDocSettled")
  /\ UNCHANGED <<psVars, vg, app>>

\* Lines 113-116: the documents the query selects: where userId == uid.
queryDocs(docs, uid) == {d \in docs : d.userId = uid}

\* Line 117: the snapshot lists the documents selected by id; the ids are
\* random strings, so that the order is either way round in the ids here.
snapshotOf(S, rev) ==
  LET rank(d) == Cardinality({e \in S : IF rev THEN e.id > d.id
                                                ELSE e.id < d.id}) + 1
  IN  [k \in 1..Cardinality(S) |-> CHOOSE d \in S : rank(d) = k]

\* Lines 120-130: a document of the snapshot as mapped; t is Date.now(),
\* taken where the timestamp is missing.
mapDoc(d, t) ==
  [id |-> d.id, userId |-> d.userId,
   timestamp |-> IF d.timestamp = NoStamp THEN t ELSE d.timestamp]

\* The list as the snapshot gave it.
sortDocs_asGiven(docs) == docs
\* Line 133: docs.sort((a, b) => b.timestamp - a.timestamp): descending by
\* timestamp, equal timestamps in the order given.
sortDocs(docs) ==
  LET before(i, j) ==
        \/ docs[i].timestamp > docs[j].timestamp
        \/ docs[i].timestamp = docs[j].timestamp /\ i < j
      rank(i) == Cardinality({j \in DOMAIN docs : before(j, i)}) + 1
  IN  [k \in DOMAIN docs |-> docs[CHOOSE i \in DOMAIN docs : rank(i) = k]]

\* Lines 117-140: getDocs settled; t is Date.now().
getDocsSettled(p, out, rev, t) ==
  /\ p \in fb.pending /\ p.op = "fetch"
  /\ fb' =
       IF out = "ok"
         THEN LET snap == snapshotOf(queryDocs(fb.docs, p.uid), rev) IN
              [fb EXCEPT !.pending = @ \ {p},
                         !.internalPermissionError = FALSE,
                         !.ret = [neutral("fetch") EXCEPT !.by = p.uid,
                                    !.remote = TRUE, !.ok = TRUE,
                                    !.docs = sortDocs([k \in DOMAIN snap |->
                                                         mapDoc(snap[k], t)])]]
         ELSE [fb EXCEPT !.pending = @ \ {p},
                         !.internalPermissionError = flagAfterFailure(fb, out),
                         !.ret = [neutral("fetch") EXCEPT !.by = p.uid,
                                                          !.remote = TRUE]]
  /\ lastOp' = Op("getDocsSettled")
  /\ UNCHANGED <<psVars, vg, app>>

\* ------------------------------------------------------------ specification
\* Lines 22-42 / 491-505: the component as mounted.
InitMounted ==
  /\ variant \in {"grooming", "roleplay"}
  /\ sessionMode = "roleplay"
  /\ status = "idle"
  /\ isActive = FALSE
  /\ evaluation = FALSE
  /\ sessionRef = NoRef
  /\ streamRef = NoRef
  /\ pc = [i \in Attempts |-> "unused"]
  /\ chan = [i \in Attempts |-> "none"]
  /\ capMode = [i \in Attempts |-> "roleplay"]
  /\ capStatus = [i \in Attempts |-> "idle"]
  /\ tracksLive = {}
  /\ t0 = [i \in Attempts |-> 0]
  /\ now = 0
  /\ srcs = <<>>
  /\ sourcesRef = {}
  /\ nextStartTime = 0
  /\ pending = <<>>
  /\ userT = <<>>
  /\ aiT = <<>>
  /\ transcription = <<>>
  /\ audits = [issued |-> 0, pending |-> 0]
  /\ outbound = [captured |-> 0, waiting |-> <<>>, sent |-> <<>>]
  /\ vg = VgMounted
  /\ app = AppMounted
  /\ lastOp = "mount"
  /\ cancelled = FALSE

\* Every component as mounted, the store module as loaded.
Init == InitMounted /\ fb = FbLoaded

\* The whole controller: any number of start requests up to MaxStarts, their
\* channels' callbacks in any order, inbound audio messages.
LifeLimits == [src |-> LifeSources, text |-> 0, turns |-> 0]
LifeMessages ==
  {m \in Messages(1) : ~m.inT /\ ~m.outT /\ ~m.turn /\ ~m.intr /\ m.audio > 0}

Next ==
  \/ \E i \in Attempts : startPractice(i)
  \/ \E i \in Attempts : micGranted(i)
  \/ \E i \in Attempts : micDenied(i)
  \/ \E i \in Attempts : connectRejected(i)
  \/ \E i \in Attempts : onopen(i)
  \/ \E i \in Attempts : connectResolved(i)
  \/ \E i \in Attempts, m \in LifeMessages : onmessage(i, m, LifeLimits)
  \/ \E k \in 1..LifeSources : decodeDone(k)
  \/ \E i \in Attempts : onerror(i)
  \/ \E i \in Attempts : onclose(i)
  \/ endSession
  \/ \E mode \in {"roleplay", "grooming"} : modeToggle(mode)

Spec == Init /\ [][Next]_vars

\* One session, from the moment its connect promise has resolved: the state
\* reached from Init by (modeToggle,) startPractice(1), micGranted(1),
\* onopen(1), connectResolved(1).
InitSession ==
  /\ variant \in {"grooming", "roleplay"}
  /\ sessionMode \in {"roleplay", "grooming"}
  /\ variant = "roleplay" => sessionMode = "roleplay"
  /\ status = "active"
  /\ isActive = TRUE
  /\ evaluation = FALSE
  /\ sessionRef = 1
  /\ streamRef = 1
  /\ pc = [i \in Attempts |-> IF i = 1 THEN "resolved" ELSE "unused"]
  /\ chan = [i \in Attempts |-> IF i = 1 THEN "open" ELSE "none"]
  /\ capMode = [i \in Attempts |-> IF i = 1 THEN sessionMode ELSE "roleplay"]
  /\ capStatus = [i \in Attempts |-> "idle"]
  /\ tracksLive = {1}
  /\ t0 = [i \in Attempts |-> 0]
  /\ now = 0
  /\ srcs = <<>>
  /\ sourcesRef = {}
  /\ nextStartTime = 0
  /\ pending = <<>>
  /\ userT = <<>>
  /\ aiT = <<>>
  /\ transcription = <<>>
  /\ audits = [issued |-> 0, pending |-> 0]
  /\ outbound = [captured |-> 0, waiting |-> <<>>, sent |-> <<>>]
  /\ vg = VgMounted
  /\ app = AppMounted
  /\ fb = FbLoaded
  /\ lastOp = "connectResolved"
  /\ cancelled = FALSE

\* The inbound audio stream of one session against the playback clock:
\* buffers of any duration arriving at any time, interruptions, natural ends.
PlayLimits == [src |-> PlaySources, text |-> 0, turns |-> 0]
PlayMessages ==
  {m \in Messages(PlayDur) :
     ~m.inT /\ ~m.outT /\ ~m.turn /\ (m.audio > 0 \/ m.intr)}

NextPlay ==
  \/ \E m \in PlayMessages : onmessage(1, m, PlayLimits)
  \/ \E k \in 1..PlaySources : decodeDone(k)
  \/ \E k \in 1..PlaySources : onended(k)
  \/ tick(PlayTime)

SpecPlay == InitSession /\ [][NextPlay]_vars

\* The inbound transcript stream of one session, messages of every shape, and
\* the session's teardown.
TextLimits == [src |-> TextSources, text |-> TextChunks, turns |-> TextTurns]
TextMessages == Messages(1)

NextText ==
  \/ \E m \in TextMessages : onmessage(1, m, TextLimits)
  \/ \E k \in 1..TextSources : decodeDone(k)
  \/ \E m \in TextMessages : onmessageThrows(1, m)
  \/ onerror(1)
  \/ onclose(1)
  \/ endSession
  \/ \E mode \in {"roleplay", "grooming"} : modeToggle(mode)

SpecText == InitSession /\ [][NextText]_vars

\* One session receiving audio-only messages and bare turnComplete messages
\* against the playback clock.
TurnLimits == [src |-> PlaySources, text |-> 0, turns |-> PlayTurns]
TurnMessages ==
  {m \in Messages(PlayDur) :
     /\ ~m.inT /\ ~m.outT /\ ~m.intr
     /\ (m.audio > 0) # m.turn}

NextTurn ==
  \/ \E m \in TurnMessages : onmessage(1, m, TurnLimits)
  \/ \E k \in 1..PlaySources : decodeDone(k)
  \/ \E k \in 1..PlaySources : onended(k)
  \/ tick(PlayTime)

SpecTurn == InitSession /\ [][NextTurn]_vars

\* One attempt from the moment its channel has opened: the state reached from
\* Init by (modeToggle,) startPractice(1), micGranted(1), onopen(1).
InitOpened ==
  /\ variant \in {"grooming", "roleplay"}
  /\ sessionMode \in {"roleplay", "grooming"}
  /\ variant = "roleplay" => sessionMode = "roleplay"
  /\ status = "active"
  /\ isActive = TRUE
  /\ evaluation = FALSE
  /\ sessionRef = NoRef
  /\ streamRef = 1
  /\ pc = [i \in Attempts |-> IF i = 1 THEN "opened" ELSE "unused"]
  /\ chan = [i \in Attempts |-> IF i = 1 THEN "open" ELSE "none"]
  /\ capMode = [i \in Attempts |-> IF i = 1 THEN sessionMode ELSE "roleplay"]
  /\ capStatus = [i \in Attempts |-> "idle"]
  /\ tracksLive = {1}
  /\ t0 = [i \in Attempts |-> 0]
  /\ now = 0
  /\ srcs = <<>>
  /\ sourcesRef = {}
  /\ nextStartTime = 0
  /\ pending = <<>>
  /\ userT = <<>>
  /\ aiT = <<>>
  /\ transcription = <<>>
  /\ audits = [issued |-> 0, pending |-> 0]
  /\ outbound = [captured |-> 0, waiting |-> <<>>, sent |-> <<>>]
  /\ vg = VgMounted
  /\ app = AppMounted
  /\ fb = FbLoaded
  /\ lastOp = "onopen"
  /\ cancelled = FALSE

\* The outbound frames of one attempt, captured before and after its connect
\* promise resolves, and the attempt's teardown.
NextSend ==
  \/ onaudioprocess(1)
  \/ connectResolved(1)
  \/ onerror(1)
  \/ onclose(1)
  \/ endSession
  \/ \E mode \in {"roleplay", "grooming"} : modeToggle(mode)

SpecSend == InitOpened /\ [][NextSend]_vars

\* The video generator alone: clicks, mode changes and the outcomes of its
\* remote calls; the session controller stays as mounted.
InitVideo == Init /\ variant = "roleplay"

NextVideo ==
  \/ \E r \in Runs : vgClick(r)
  \/ \E r \in Runs, has \in BOOLEAN : vgKeyChecked(r, has)
  \/ \E r \in Runs : vgKeySelected(r)
  \/ \E r \in Runs : vgTextReturned(r)
  \/ \E r \in Runs, call \in {"text", "video", "poll", "fetch"}, e \in Errors :
       vgCallFailed(r, call, e)
  \/ \E r \in Runs : vgReselected(r)
  \/ \E r \in Runs, done \in BOOLEAN, uri \in BOOLEAN :
       vgOperationReturned(r, done, uri)
  \/ \E r \in Runs, ok \in BOOLEAN : vgFetched(r, ok)
  \/ \E m \in {"delivery-coach", "text-to-video", "extension"} : vgSetMode(m)
  \/ vgReset

SpecVideo == InitVideo /\ [][NextVideo]_vars

\* The steps of run r that are not the user's: an answer of the key check or
\* of the key selection, the return or the failure of a remote call.
vgProgress(r) ==
  \/ \E has \in BOOLEAN : vgKeyChecked(r, has)
  \/ vgKeySelected(r)
  \/ vgTextReturned(r)
  \/ \E call \in {"text", "video", "poll", "fetch"}, e \in Errors :
       vgCallFailed(r, call, e)
  \/ vgReselected(r)
  \/ \E done \in BOOLEAN, uri \in BOOLEAN : vgOperationReturned(r, done, uri)
  \/ \E ok \in BOOLEAN : vgFetched(r, ok)

\* The video generator when every call a run awaits is answered in the end;
\* an operation reports done, or its poll fails, after MaxPolls polls at most.
SpecVideoFair == SpecVideo /\ \A r \in Runs : WF_vars(vgProgress(r))

\* The grooming variant with one session running: user speech arriving, the
\* audit and its scoring call, the mode buttons, the channel's callbacks and
\* the start requests made afterwards.
InitAudit == InitSession /\ variant = "grooming"

AuditLimits == [src |-> 0, text |-> TextChunks, turns |-> 0]
AuditMessages ==
  {m \in Messages(0) : m.inT /\ ~m.outT /\ ~m.turn /\ ~m.intr}

NextAudit ==
  \/ \E i \in Attempts, m \in AuditMessages : onmessage(i, m, AuditLimits)
  \/ runGroomingAudit
  \/ \E ok \in BOOLEAN : auditReturned(ok)
  \/ dismissEvaluation
  \/ \E i \in Attempts : onerror(i)
  \/ \E i \in Attempts : onclose(i)
  \/ \E mode \in {"roleplay", "grooming"} : modeToggle(mode)
  \/ \E i \in Attempts : startPractice(i)
  \/ \E i \in Attempts : micGranted(i)
  \/ \E i \in Attempts : micDenied(i)
  \/ \E i \in Attempts : connectRejected(i)
  \/ \E i \in Attempts : onopen(i)
  \/ \E i \in Attempts : connectResolved(i)

SpecAudit == InitAudit /\ [][NextAudit]_vars

\* The live-source set of one session: buffers scheduled, ended naturally,
\* force-stopped by an interruption or by the session's teardown, and the end
\* callbacks of the force-stopped ones.
LiveLimits == [src |-> LiveSet, text |-> 0, turns |-> 0]
LiveMessages ==
  {m \in Messages(1) : ~m.inT /\ ~m.outT /\ ~m.turn /\ (m.audio > 0 \/ m.intr)}

NextLive ==
  \/ \E m \in LiveMessages : onmessage(1, m, LiveLimits)
  \/ \E k \in 1..LiveSet : decodeDone(k)
  \/ \E k \in 1..LiveSet : onended(k)
  \/ \E k \in 1..LiveSet : onendedStopped(k)
  \/ tick(LiveTime)
  \/ onclose(1)
  \/ endSession

SpecLive == InitSession /\ [][NextLive]_vars

\* One session after another: transcript messages of the running session,
\* its teardown, and the start request that follows.
RestartLimits == [src |-> 0, text |-> TextChunks, turns |-> TextTurns]
RestartMessages == {m \in Messages(0) : ~m.intr /\ (m.inT \/ m.outT \/ m.turn)}

NextRestart ==
  \/ \E i \in Attempts, m \in RestartMessages : onmessage(i, m, RestartLimits)
  \/ \E i \in Attempts : onclose(i)
  \/ endSession
  \/ \E mode \in {"roleplay", "grooming"} : modeToggle(mode)
  \/ \E i \in Attempts : startPractice(i)
  \/ \E i \in Attempts : micGranted(i)
  \/ \E i \in Attempts : onopen(i)
  \/ \E i \in Attempts : connectResolved(i)

SpecRestart == InitSession /\ [][NextRestart]_vars

\* App alone: sign-ins and sign-outs, the library and the uploads, the
\* analysis runs; the components it shows stay as mounted.
InitApp == Init /\ variant = "roleplay"

NextApp ==
  \/ \E u \in Users \cup {NoUser} : authChanged(u)
  \/ loadHistory
  \/ \E u \in Users, n \in 1..MaxFetches, ok \in BOOLEAN :
       fetchReturned([by |-> u, n |-> n], ok)
  \/ \E id \in Users : toggleLibraryDoc(id)
  \/ \E fs \in AppFiles : setFiles(fs)
  \/ \E c \in AppContexts : setMeetingContext(c)
  \/ \E t \in {"context", "strategy"} : setActiveTab(t)
  \/ \E via \in {"button", "gallery"} : runAnalysis(via)
  \/ \E ok \in BOOLEAN : analysisReturned(ok)
  \/ reset

SpecApp == InitApp /\ [][NextApp]_vars

\* The store module alone: it loads, accounts sign in and out, the four
\* operations are called and their remote calls settle in any order.
InitStore == InitMounted /\ variant = "roleplay" /\ fb \in FbLoads

\* The remote calls an operation may have in flight.
StoreCalls(op) ==
  {[n |-> n, op |-> op, uid |-> u, id |-> id, timestamp |-> t] :
     n \in 1..MaxOps, u \in Users,
     id \in IF op \in {"update", "delete"} THEN DocIds ELSE {NoId},
     t \in IF op = "save" THEN Stamps ELSE {NoStamp}}

NextStore ==
  \/ \E u \in Users \cup {NoUser} : fbAuthChanged(u)
  \/ clearFirebasePermissionError
  \/ \E t \in Stamps : saveDocumentToFirebase(t)
  \/ \E id \in DocIds : updateDocumentInFirebase(id)
  \/ fetchDocumentsFromFirebase
  \/ \E id \in DocIds : deleteDocumentFromFirebase(id)
  \/ \E p \in StoreCalls("save"), out \in Outcomes : addDocSettled(p, out)
  \/ \E p \in StoreCalls("update"), out \in Outcomes : updateDocSettled(p, out)
  \/ \E p \in StoreCalls("delete"), out \in Outcomes : deleteDocSettled(p, out)
  \/ \E p \in StoreCalls("fetch"), out \in Outcomes, rev \in BOOLEAN,
          t \in Stamps :
       getDocsSettled(p, out, rev, t)

SpecStore == InitStore /\ [][NextStore]_vars


\* ==================================================================== claims

\* A step in which stopPractice ran.
StopStep ==
  \/ endSession
  \/ \E mode \in {"roleplay", "grooming"} : modeToggle(mode)
  \/ \E i \in Attempts : onerror(i) \/ onclose(i)
  \/ runGroomingAudit

\* A step in which the handling of inbound message m of session 1 completed.
Handled(m, lim) ==
  \/ onmessage(1, m, lim) /\ pending' = pending
  \/ \E k \in DOMAIN pending : pending[k].m = m /\ decodeDone(k)

\* C1: right after stopPractice has run, from whatever state, the live-source
\* set is empty, the cursor is 0, the stream that was held has its tracks
\* stopped and is no longer held, and the channel handle is null.
C1_StopReleases ==
  [][StopStep =>
       /\ sourcesRef' = {}
       /\ nextStartTime' = 0
       /\ streamRef \notin tracksLive'
       /\ streamRef' = NoRef
       /\ sessionRef' = NoRef]_vars

\* C1 witness: a stop of an active session that had a source scheduled, a
\* stream held and a channel open.
C1_Witness ==
  /\ lastOp \in {"stop", "toggle"}
  /\ srcs # <<>>
  /\ srcs[1].st = "stopped"
  /\ 1 \notin tracksLive
  /\ chan[1] = "closing"

C3_OneSession ==
  Cardinality({i \in Attempts : chan[i] \in {"opening", "open"}}) <= 1

\* C4: in every variant, the handling of a message that carries the
\* interrupted flag stops every source of the live set and leaves the set
\* empty and the cursor at 0.
C4_InterruptClears ==
  [][\A m \in PlayMessages :
       (m.intr /\ Handled(m, PlayLimits)) =>
         /\ sourcesRef' = {}
         /\ nextStartTime' = 0
         /\ \A k \in sourcesRef : srcs'[k].st = "stopped"]_vars

\* C5: the error callback of an active session leaves status 'error', with
\* the teardown done.
C5_ErrorStatus ==
  [][\A i \in Attempts :
       (status = "active" /\ onerror(i)) =>
         /\ status' = "error"
         /\ sourcesRef' = {}
         /\ nextStartTime' = 0
         /\ streamRef' = NoRef
         /\ sessionRef' = NoRef]_vars

\* C6: a start attempt whose microphone request is denied or whose connect is
\* rejected sets status 'error' and leaves isActive false; the channel of a
\* failed attempt is not open and its session is not held, so the attempt
\* never makes the status 'active'.
C6_FailedStart ==
  [][\A i \in Attempts :
       /\ (micDenied(i) \/ connectRejected(i)) =>
            (status' = "error" /\ (~isActive => ~isActive'))
       /\ pc'[i] = "failed" =>
            (chan'[i] \notin {"opening", "open"} /\ sessionRef' # i)
       /\ pc[i] = "failed" => pc'[i] = "failed"]_vars

\* C6 witness: the connect of an attempt was rejected after its microphone
\* was granted.
C6_Witness ==
  /\ lastOp = "connectRejected"
  /\ \E i \in Attempts : pc[i] = "failed" /\ chan[i] = "closed"
  /\ status = "error"
  /\ ~isActive

\* C7: once the controller is back in idle or error with no start attempt in
\* progress, no acquired microphone stream has live tracks and none is held.
C7_MicReleased ==
  (/\ status \in {"idle", "error"}
   /\ \A i \in Attempts : pc[i] \notin {"mic", "connect", "opened"})
  => (tracksLive = {} /\ streamRef = NoRef)

\* C8: after stopPractice ran while status was 'connecting', and until the
\* next start request, the channel handle stays null, isActive stays false
\* and the status does not become 'active'.
C8_StopCancels ==
  cancelled => (sessionRef = NoRef /\ ~isActive /\ status # "active")

\* C9: status becomes 'active' only by the open callback and only from
\* 'connecting'; it becomes 'connecting' only by a start request.
C9_StatusTransitions ==
  [][/\ (status' = "active" /\ status # "active") =>
          ((\E i \in Attempts : onopen(i)) /\ status = "connecting")
     /\ (status' = "connecting" /\ status # "connecting") =>
          (\E i \in Attempts : startPractice(i))]_vars

\* C10: in roleplay mode the handling of a message with the turnComplete flag
\* appends one pair, the two accumulators' contents at that moment, to the end
\* of the history and leaves both accumulators empty.
C10_TurnComplete ==
  [][\A m \in TextMessages :
       (m.turn /\ capMode[1] = "roleplay" /\ Handled(m, TextLimits)) =>
         /\ transcription' =
              Append(transcription,
                     [user |-> userAfter(m, userT), ai |-> aiAfter(m, aiT)])
         /\ userT' = <<>>
         /\ aiT' = <<>>]_vars

\* C11: in grooming mode the handling of a message with the turnComplete flag
\* appends one pair to the history, leaves the user accumulator as the
\* message's own chunk made it, and leaves the agent accumulator empty.
C11_TurnCompleteGrooming ==
  [][\A m \in TextMessages :
       (m.turn /\ variant = "grooming" /\ capMode[1] = "grooming"
          /\ Handled(m, TextLimits)) =>
         /\ Len(transcription') = Len(transcription) + 1
         /\ userT' = userAfter(m, userT)
         /\ aiT' = <<>>]_vars

\* C12: the handling of any inbound message without the turnComplete flag
\* appends the user chunk it carries to the user accumulator and the agent
\* chunk it carries to the agent accumulator, also when it carries both.
C12_ChunksAppended ==
  [][\A m \in TextMessages :
       (~m.turn /\ Handled(m, TextLimits)) =>
         /\ userT' = IF m.inT THEN Append(userT, USER_CHUNK) ELSE userT
         /\ aiT' = IF m.outT THEN Append(aiT, AI_CHUNK) ELSE aiT]_vars

\* C13: when stopPractice runs right after stopPractice has run, the second
\* run changes none of status, isActive, the channel handle, the stream
\* handle, the live-source set, the cursor and the two accumulators (and no
\* source or track that the first run stopped is touched again).
C13_StopIdempotent ==
  [][(lastOp \in StopOps \cup {"stopAgain"} /\ StopStep) =>
       /\ status' = status
       /\ isActive' = isActive
       /\ sessionRef' = sessionRef
       /\ streamRef' = streamRef
       /\ sourcesRef' = sourcesRef
       /\ nextStartTime' = nextStartTime
       /\ userT' = userT
       /\ aiT' = aiT
       /\ srcs' = srcs
       /\ tracksLive' = tracksLive]_vars

\* C13 witness: stopPractice ran twice in a row on a session whose source the
\* first run had force-stopped.
C13_Witness ==
  /\ lastOp = "stopAgain"
  /\ srcs # <<>>
  /\ srcs[1].st = "stopped"
  /\ sourcesRef = {}
  /\ status = "idle"

\* The pair a turn with no transcript text appends.
EmptyPair == [user |-> <<>>, ai |-> <<>>]

\* C14: audio-only messages change neither accumulator nor the history; three
\* of them followed by a turnComplete leave one history entry with empty user
\* and agent text, and the sources scheduled do not overlap: each starts at or
\* after the computed end of the one scheduled before it.
C14_AudioOnlyFrame ==
  /\ [](/\ userT = <<>>
        /\ aiT = <<>>
        /\ \A n \in DOMAIN transcription : transcription[n] = EmptyPair
        /\ \A k \in DOMAIN srcs :
             k > 1 => srcs[k].start >= srcs[k - 1].start + srcs[k - 1].dur)
  /\ [][\A m \in TurnMessages :
          /\ (m.audio > 0 /\ Handled(m, TurnLimits)) =>
               /\ UNCHANGED textVars
               /\ Len(srcs') = Len(srcs) + 1
          /\ (m.turn /\ Handled(m, TurnLimits)) =>
               /\ transcription' = Append(transcription, EmptyPair)
               /\ UNCHANGED <<srcs, userT, aiT>>]_vars

\* C14 witness: three sources were scheduled and one turn was completed.
C14_Witness ==
  /\ Len(srcs) = 3
  /\ pending = <<>>
  /\ Len(transcription) = 1
  /\ srcs[3].start > srcs[1].start

\* C15: the close callback of an open channel (a remote close with no error
\* before it) force-stops no source: every source of the live set is still
\* playing after it.
C15_GracefulClose ==
  [][\A i \in Attempts :
       (chan[i] = "open" /\ onclose(i)) =>
         \A k \in sourcesRef : srcs'[k].st = "playing"]_vars

\* C16: in every variant, right after stopPractice has run, both transcript
\* accumulators are empty.
C16_StopClearsText ==
  [][StopStep => (userT' = <<>> /\ aiT' = <<>>)]_vars

\* C17: a failure while an inbound audio payload is decoded is caught and
\* shown to the user: the handler that failed leaves status 'error'.
C17_FailuresSurface ==
  [][(\E m \in TextMessages : onmessageThrows(1, m)) => status' = "error"]_vars

\* C18: each captured frame has exactly one send, and the sends are issued in
\* capture order, also for the frames captured while the connect promise was
\* pending: the frames sent and the frames waiting, in this order, are the
\* frames captured, in capture order, and none waits once the promise has
\* resolved.
C18_SendOrder ==
  LET all == outbound.sent \o outbound.waiting
  IN  /\ Len(all) = outbound.captured
      /\ \A n \in DOMAIN all : all[n].id = n
      /\ pc[1] = "resolved" => outbound.waiting = <<>>

\* C18 witness: two frames captured while the connect promise was pending had
\* their sends issued when it resolved.
C18_Witness ==
  /\ lastOp = "connectResolved"
  /\ Len(outbound.sent) >= 2
  /\ outbound.waiting = <<>>

\* C19: a microphone request is issued only by a start request, and a failed
\* start or a transport error (the catch block, the error and the close
\* callbacks) issues no microphone request and no connect: it moves no attempt
\* to the microphone request or to the connect and opens no channel.
C19_NoRetry ==
  [][\A i \in Attempts :
       /\ (pc[i] = "unused" /\ pc'[i] # "unused") => startPractice(i)
       /\ (micDenied(i) \/ connectRejected(i) \/ onerror(i) \/ onclose(i)) =>
            \A j \in Attempts :
              /\ pc'[j] \in {"mic", "connect"} => pc'[j] = pc[j]
              /\ chan'[j] = "opening" => chan[j] = "opening"]_vars

\* C19 witness: after a transport error and a failed start, with one start
\* request made, the other attempt is still unused.
C19_Witness ==
  /\ pc[1] = "failed"
  /\ pc[2] = "unused"
  /\ chan[1] = "closing"
  /\ lastOp = "connectRejected"

\* C20: a quota error of any generation call of a run is shown as the quota
\* message and opens no key selection; a not-found error that is no quota
\* error opens the key selection, and the re-select message is shown when
\* that returns.
C20_ErrorKinds ==
  [][\A r \in Runs, call \in {"text", "video", "poll"}, e \in Errors :
       /\ (vgCallFailed(r, call, e) /\ (e.q429 \/ e.qRE)) =>
            (vg'.error = QUOTA_MSG /\ vg'.keyOpened = vg.keyOpened)
       /\ (vgCallFailed(r, call, e) /\ e.nf /\ ~e.q429 /\ ~e.qRE) =>
            (vg'.run[r] = "reselect" /\ vg'.keyOpened = vg.keyOpened + 1)
       /\ vgReselected(r) => vg'.error = RESELECT_MSG]_vars


\* C21: no playback source is started, or added to the live set, for a message
\* that was received before stopPractice or an interruption cleared the set:
\* a message whose decode was pending at that moment schedules nothing when
\* its handler resumes.
C21_NoLatePlayback ==
  \A k \in DOMAIN srcs : ~srcs[k].late /\ (k \in sourcesRef => ~srcs[k].late)


\* C22: in the grooming variant runGroomingAudit leaves status 'analyzing';
\* while the scoring call is pending no handler but its return changes the
\* status; its return leaves 'idle' on success and 'error' on failure.
C22_AnalyzingHeld ==
  [][/\ runGroomingAudit => status' = "analyzing"
     /\ (status = "analyzing" /\ audits.pending > 0
           /\ ~(\E ok \in BOOLEAN : auditReturned(ok))) => status' = "analyzing"
     /\ \A ok \in BOOLEAN :
          auditReturned(ok) => status' = (IF ok THEN "idle" ELSE "error")]_vars


\* C23: once stopPractice has run on the session (its stream is no longer
\* held), the capture callback installed by onopen issues no send of an
\* outbound audio frame.
C23_NoSendAfterStop ==
  [][(streamRef = NoRef /\ \E i \in Attempts : onaudioprocess(i)) =>
       outbound'.sent = outbound.sent]_vars


\* C24: at every moment the live-source set holds exactly the sources that
\* were started and have neither ended naturally nor been force-stopped; the
\* end callback of a force-stopped source, which runs after the set was
\* cleared, leaves the set as it is.
C24_LiveSetExact ==
  /\ [](sourcesRef = {k \in DOMAIN srcs : srcs[k].st = "playing"})
  /\ [][\A k \in DOMAIN srcs : onendedStopped(k) => sourcesRef' = sourcesRef]_vars

\* C24 witness: the end callback of a force-stopped source has run while a
\* newer source is in the set, and another source had ended naturally.
C24_Witness ==
  /\ lastOp = "onendedStopped"
  /\ sourcesRef # {}
  /\ \E k \in DOMAIN srcs : srcs[k].st = "ended"
  /\ \E k \in DOMAIN srcs : srcs[k].st = "stoppedEnded"


\* C25: isActive is true exactly when status is 'active'.
C25_ActiveAgrees ==
  isActive <=> (status = "active")


\* C26: a start request that is accepted leaves the turn history and both
\* transcript accumulators empty: the new session begins with none of the
\* text of the session before it.
C26_FreshHistory ==
  [][(\E i \in Attempts : startPractice(i)) =>
       (transcription' = <<>> /\ userT' = <<>> /\ aiT' = <<>>)]_vars


\* C27: the 16-bit code of every captured sample s in [-1, 1] lies in
\* [-32768, 32767], has the sign of s, and is s * 32768 saturated to that
\* range; the code of the full-scale sample s = 1 is positive.
C27_PcmSaturates ==
  \A f \in {outbound.sent[k] : k \in DOMAIN outbound.sent}
           \cup {outbound.waiting[k] : k \in DOMAIN outbound.waiting} :
    /\ f.pcm \in (0 - PCM_SCALE)..(PCM_SCALE - 1)
    /\ f.s > 0 => f.pcm > 0
    /\ f.s < 0 => f.pcm < 0
    /\ f.pcm = ToInt16_saturating(Trunc(f.s * PCM_SCALE, SampleDen))
    /\ f.s = SampleDen => f.pcm > 0


\* C28: while no user is signed in, the document history, the uploaded files,
\* the stored analysis and the library selection are empty; and what the
\* state holds after the next sign-in is that account's: no document of the
\* history and no stored analysis comes from a call another account issued
\* before the sign-out.
C28_SignOutClears ==
  /\ app.user = NoUser =>
       /\ app.history = {}
       /\ app.files = <<>>
       /\ app.analysis = NoInput
       /\ app.selected = {}
  /\ app.user # NoUser =>
       /\ app.history \subseteq storedDocs(app.user)
       /\ app.analysis # NoInput => app.analysis.by = app.user


\* The documents and the context of two analysis inputs are the same.
SameInput(x, y) == x.files = y.files /\ x.docs = y.docs /\ x.ctx = y.ctx

\* C29: runAnalysis reuses the stored analysis, issuing no remote call, only
\* when the documents and the context it would analyse are those of the last
\* analysis stored; when there is something to analyse and a file's content, a
\* selected document or the context differs from that, it issues a remote
\* analysis of what is there now.
C29_ReuseOnlyIdentical ==
  [][\A via \in {"button", "gallery"} :
       runAnalysis(via) =>
         /\ (~nothingReady(app) /\ app'.call = NoCall) =>
              SameInput(analysisInput(app), app.analysed)
         /\ (~nothingReady(app)
               /\ ~SameInput(analysisInput(app), app.analysed)) =>
              app'.call = [hash |-> generateStateHash(app),
                           input |-> analysisInput(app)]]_vars

\* C29 witness: an analysis was issued for a file whose name and length, and
\* so the state hash, are those of the last analysis stored, and whose
\* content is another.
C29_Witness ==
  /\ lastOp = "runAnalysis"
  /\ app.analysed # NoInput
  /\ app.call.hash = app.lastAnalyzedHash
  /\ app.call.input.files # app.analysed.files


\* C30: at most one video generation is in flight: no two handleGenerateVideo
\* runs have both issued generateVideos with neither operation yet done.
C30_OneGeneration ==
  Cardinality({r \in Runs : vg.run[r] \in {"video", "poll"}}) <= 1


\* C31: the step that finishes a handleGenerateVideo run leaves exactly one of
\* videoUrl and error set: the video and no error when the download
\* succeeded, an error and no video when any call of the run failed.
C31_UrlXorError ==
  [][\A r \in Runs :
       (vg.run[r] # "done" /\ vg'.run[r] = "done") =>
         /\ vg'.videoUrl # (vg'.error # "none")
         /\ vgFetched(r, TRUE) => (vg'.videoUrl /\ vg'.error = "none")
         /\ ~vgFetched(r, TRUE) => (~vg'.videoUrl /\ vg'.error # "none")]_vars


\* C32: every handleGenerateVideo run that has started finishes in the end,
\* and the step that finishes it leaves isGenerating false and the status
\* message empty; a poll that returns an operation not yet done is followed by
\* another poll, with isGenerating still true.
C32_RunsFinish ==
  /\ \A r \in Runs : (vg.run[r] \notin {"unused", "done"}) ~> (vg.run[r] = "done")
  /\ [][\A r \in Runs :
          /\ (vg.run[r] # "done" /\ vg'.run[r] = "done") =>
               (~vg'.isGenerating /\ ~vg'.statusMessage)
          /\ (\E uri \in BOOLEAN : vgOperationReturned(r, FALSE, uri)) =>
               (vg'.run[r] = "poll" /\ vg'.isGenerating)]_vars


\* C33: a runAnalysis made while no uploaded file is ready and the history
\* holds no selected document sets the error message and nothing else: it
\* issues no remote analysis, and analysis, the last-analysed hash, isAnalyzing
\* and the active tab stay as they were.
C33_EmptyOnlyError ==
  [][((\E via \in {"button", "gallery"} : runAnalysis(via))
        /\ (\A k \in DOMAIN app.files : app.files[k].status # "ready")
        /\ app.history \cap app.selected = {}) =>
       /\ app'.error # "none"
       /\ app'.call = app.call /\ app'.calls = app.calls
       /\ app'.analysis = app.analysis
       /\ app'.lastAnalyzedHash = app.lastAnalyzedHash
       /\ app'.isAnalyzing = app.isAnalyzing
       /\ app'.activeTab = app.activeTab
       /\ app' = [app EXCEPT !.error = app'.error]]_vars

\* An empty runAnalysis from the enabled button: a library document is
\* selected that the history no longer holds.
C33_Witness ==
  /\ lastOp = "runAnalysisEmpty"
  /\ app.error = "nodocs"
  /\ app.selected # {} /\ app.history \cap app.selected = {}
  /\ app.call = NoCall /\ ~app.isAnalyzing


\* C34: a remote analysis that fails leaves the stored analysis, the
\* last-analysed hash and the active tab as they were, sets an error message
\* and ends with isAnalyzing false; one that succeeds stores its result,
\* records the hash computed before the call and shows the strategy tab.
C34_ReturnEffects ==
  [][/\ analysisReturned(FALSE) =>
          /\ app'.analysis = app.analysis
          /\ app'.lastAnalyzedHash = app.lastAnalyzedHash
          /\ app'.activeTab = app.activeTab
          /\ app'.error # "none"
          /\ ~app'.isAnalyzing
     /\ analysisReturned(TRUE) =>
          /\ app'.analysis = app.call.input
          /\ app'.lastAnalyzedHash = app.call.hash
          /\ app'.activeTab = "strategy"]_vars

\* A failed analysis after an earlier one had succeeded: the hash and the tab
\* of the earlier one are still there.
C34_Witness ==
  /\ lastOp = "analysisReturned"
  /\ app.error = "failed" /\ ~app.isAnalyzing
  /\ app.lastAnalyzedHash # NoHash /\ app.activeTab = "strategy"
  /\ app.analysis = NoInput


\* A store operation is called.
StoreCalled(op) ==
  \/ op = "save" /\ \E t \in Stamps : saveDocumentToFirebase(t)
  \/ op = "update" /\ \E id \in DocIds : updateDocumentInFirebase(id)
  \/ op = "fetch" /\ fetchDocumentsFromFirebase
  \/ op = "delete" /\ \E id \in DocIds : deleteDocumentFromFirebase(id)

\* C35: a store operation called while db or auth is null or no account is
\* signed in returns its neutral value (save null, update false, fetch the
\* empty list, delete false), issues no remote call and leaves the
\* permission-error flag as it was.
C35_GuardNeutral ==
  [][\A op \in {"save", "update", "fetch", "delete"} :
       (StoreCalled(op) /\ ~(fb.db /\ fb.auth /\ fb.currentUser # NoUser)) =>
         /\ fb'.ret.op = op /\ ~fb'.ret.remote
         /\ fb'.ret.id = NoId /\ ~fb'.ret.ok /\ fb'.ret.docs = <<>>
         /\ fb'.remoteCalls = fb.remoteCalls /\ fb'.pending = fb.pending
         /\ fb'.internalPermissionError = fb.internalPermissionError
         /\ fb'.docs = fb.docs]_vars

\* A fetch called after the account signed out, the flag still set by an
\* earlier denial.
C35_Witness ==
  /\ lastOp = "fetchDocumentsFromFirebase"
  /\ fb.db /\ fb.auth /\ fb.currentUser = NoUser
  /\ fb.ret.op = "fetch" /\ ~fb.ret.remote /\ fb.ret.docs = <<>>
  /\ fb.internalPermissionError
  /\ fb.pending = {}

\* The remote call of operation op settled with outcome out.
StoreSettled(op, out) ==
  \/ op = "save" /\ \E p \in StoreCalls(op) : addDocSettled(p, out)
  \/ op = "update" /\ \E p \in StoreCalls(op) : updateDocSettled(p, out)
  \/ op = "fetch" /\ \E p \in StoreCalls(op), rev \in BOOLEAN, t \in Stamps :
                       getDocsSettled(p, out, rev, t)
  \/ op = "delete" /\ \E p \in StoreCalls(op) : deleteDocSettled(p, out)

\* C36: after any of the four operations failed with permission-denied the
\* flag is true; after a save, a fetch or a delete succeeded it is false; a
\* failure of another kind leaves it as it was.
C36_FlagTracks ==
  [][\A op \in {"save", "update", "fetch", "delete"} :
       /\ StoreSettled(op, "permission-denied") => fb'.internalPermissionError
       /\ (op # "update" /\ StoreSettled(op, "ok")) =>
            ~fb'.internalPermissionError
       /\ StoreSettled(op, "unavailable") =>
            fb'.internalPermissionError = fb.internalPermissionError]_vars

\* C37: the list fetchDocumentsFromFirebase returns holds only documents whose
\* userId is the uid of the account the fetch was called for, each timestamp
\* greater than or equal to the next one's; when the remote call fails the
\* list is empty.
C37_FetchScopedSorted ==
  [][\A out \in Outcomes :
       StoreSettled("fetch", out) =>
         LET r == fb'.ret.docs IN
         /\ \A k \in DOMAIN r : r[k].userId = fb'.ret.by
         /\ \A k \in DOMAIN r :
              k + 1 \in DOMAIN r => r[k].timestamp >= r[k + 1].timestamp
         /\ \A k \in DOMAIN r :
              \E d \in fb.docs : d.id = r[k].id /\ d.userId = r[k].userId
         /\ out # "ok" => r = <<>>]_vars

\* A fetch that returned two documents of its account, the later first, while
\* the collection holds a document of another account.
C37_Witness ==
  /\ lastOp = "getDocsSettled"
  /\ fb.ret.ok /\ Len(fb.ret.docs) >= 2
  /\ fb.ret.docs[1].timestamp > fb.ret.docs[2].timestamp
  /\ fb.ret.docs[1].id > fb.ret.docs[2].id
  /\ fb.ret.by = fb.currentUser
  /\ \E d \in fb.docs : d.userId # fb.ret.by

=============================================================================
